---- MODULE Spec2Model ----
(***************************************************************************)
(* smart-search (src/lib.rs): a cache-aware search over a sorted Vec.      *)
(*   find                   dispatches between binary search and jump      *)
(*                          search on the level-2 data cache geometry      *)
(*   find_jump              jump search with the computed stride           *)
(*   find_jump_with_size    the jump search loop                           *)
(*   linear_search          scan of a half-open interval                   *)
(*   get_optimal_jump_size  (len as f64).sqrt() as usize                   *)
(* One behaviour of the model is one call.  Indices are 0-based as in the  *)
(* source; an Option<usize> is <<>> (None) or <<n>> (Some(n)).             *)
(***************************************************************************)
EXTENDS Integers, Sequences, FiniteSets, TLC

VARIABLES
    collection,       \* the borrowed Vec<T>
    item,             \* the target
    entry,            \* the function the caller invoked
    pc,               \* position inside the call
    jump_size,        \* local jump_size
    cache_line_size,  \* find: the min() accumulator, then the local of line 8
    pulled,           \* find: cache descriptors the iterator has yielded so far
    i,                \* find_jump_with_size: probe index
    left,             \* linear_search: argument left of the latest call
    right,            \* linear_search: argument right of the latest call
    scanned_block,    \* observer: an in-loop linear_search call has returned
    entered,          \* observer: the search strategies the call has entered
    result            \* the returned Option<usize>

vars == <<collection, item, entry, pc, jump_size, cache_line_size, pulled, i,
          left, right, scanned_block, entered, result>>

----------------------------------------------------------------------------
(* Bounds of the model *)

MaxLen == 6        \* longest enumerated collection
MaxVal == 2        \* enumerated elements and targets are 0..MaxVal
MaxCaches == 2     \* most cache descriptors one query yields
MaxDim == 2        \* sets, associativity and line size range over 1..MaxDim
MaxStride == 3     \* largest stride handed to find_jump_with_size directly

----------------------------------------------------------------------------
(* Values *)

None == <<>>
Some(n) == <<n>>
is_some(o) == o # None
unwrap(o) == o[1]

\* collection[k] with the source's 0-based index
At(c, k) == c[k + 1]

Values == 0..MaxVal

RECURSIVE SeqsOfLen(_)
SeqsOfLen(n) ==
    IF n = 0 THEN {<<>>}
    ELSE {Append(s, v) : s \in SeqsOfLen(n - 1), v \in Values}

AllSeqs == UNION {SeqsOfLen(n) : n \in 0..MaxLen}

IsSorted(c) == \A k \in 1..(Len(c) - 1) : c[k] <= c[k + 1]

SortedSeqs == {c \in AllSeqs : IsSorted(c)}

Occurs(c, x) == \E k \in 1..Len(c) : c[k] = x

\* the vector and the targets of test_find_jump
TestVec ==
    <<0, 1, 1, 2, 3, 5, 8, 13, 21, 34, 55, 89, 144, 233, 377, 610, 987, 1597,
      2584, 4181, 6765, 10946, 17711, 28657, 46368, 75025, 121393, 196418,
      317811>>

TestItems == {0, 3, 5, 8, 34, 55, 89, 317811, 500}

\* the cache descriptors a cache-geometry query may yield
CacheEntries ==
    [level : {1, 2}, cache_type : {"Data", "Instruction"},
     sets : 1..MaxDim, associativity : 1..MaxDim,
     coherency_line_size : 1..MaxDim]

----------------------------------------------------------------------------
(* Pure functions of the source *)

\* largest r with r * r <= n: what (n as f64).sqrt() as usize yields for
\* every n below 2^52
RECURSIVE SqrtFrom(_, _)
SqrtFrom(n, r) == IF (r + 1) * (r + 1) <= n THEN SqrtFrom(n, r + 1) ELSE r

get_optimal_jump_size_zero1(c) == IF Len(c) <= 1 THEN 0 ELSE SqrtFrom(Len(c), 0)

get_optimal_jump_size_ceil(c) ==
    LET r == SqrtFrom(Len(c), 0) IN IF r * r = Len(c) THEN r ELSE r + 1

get_optimal_jump_size(c) == SqrtFrom(Len(c), 0)

\* collection[left..right] is a valid slice
ValidRange(c, l, r) == 0 <= l /\ l <= r /\ r <= Len(c)

\* collection[left..right].iter().position(|v| v == item), then left + idx
linear_search_skip_first(c, x, l, r) ==
    LET hits == {k \in (l + 1)..(r - 1) : At(c, k) = x}
    IN  IF hits = {} THEN None
        ELSE Some(CHOOSE k \in hits : \A h \in hits : k <= h)

linear_search_ge(c, x, l, r) ==
    LET hits == {k \in l..(r - 1) : At(c, k) >= x}
    IN  IF hits = {} THEN None
        ELSE Some(CHOOSE k \in hits : \A h \in hits : k <= h)

linear_search(c, x, l, r) ==
    LET hits == {k \in l..(r - 1) : At(c, k) = x}
    IN  IF hits = {} THEN None
        ELSE Some(CHOOSE k \in hits : \A h \in hits : k <= h)

\* the range of the linear_search call inside the loop (line 40)
LoopRange(k, s) == <<k - s, k>>

\* the range of the linear_search call after the loop (line 46)
FinalRange_copy(c, k, s) == <<k - s, k>>

FinalRange(c, k, s) == <<k - s, Len(c)>>

\* the index the loop probes next (line 44)
NextProbe(k, s) == k + s

\* slice::binary_search of the standard library: Ok(idx) => Some(idx),
\* Err(_) => None (lines 14-17)
RECURSIVE BinarySteps(_, _, _, _)
BinarySteps(c, x, lo, hi) ==
    IF lo >= hi THEN None
    ELSE LET mid == lo + ((hi - lo) \div 2)
         IN  IF At(c, mid) < x THEN BinarySteps(c, x, mid + 1, hi)
             ELSE IF At(c, mid) > x THEN BinarySteps(c, x, lo, mid)
             ELSE Some(mid)

binary_search(c, x) == BinarySteps(c, x, 0, Len(c))

\* .filter(|c| c.level() == 2 && c.cache_type() == CacheType::Data)
IsL2Data(e) == e.level = 2 /\ e.cache_type = "Data"

\* .map(|c| c.sets() * c.associativity() * c.coherency_line_size())
Capacity(e) == e.sets * e.associativity * e.coherency_line_size

\* one step of .min() over the filtered, mapped descriptors
MinStep(acc, e) ==
    IF ~IsL2Data(e) THEN acc
    ELSE IF is_some(acc) /\ unwrap(acc) <= Capacity(e) THEN acc
    ELSE Some(Capacity(e))

\* the test of line 13
UseBinary_strict(hint, stride) == is_some(hint) /\ unwrap(hint) < stride

UseBinary(hint, stride) == is_some(hint) /\ unwrap(hint) <= stride

\* find_jump_with_size as a function of its arguments, for strides >= 1 and
\* for the empty collection (where the loop body never runs)
RECURSIVE JumpFrom(_, _, _, _)
JumpFrom(c, x, s, k) ==
    IF k < Len(c) THEN
        IF At(c, k) = x THEN Some(k)
        ELSE IF At(c, k) > x /\ is_some(linear_search(c, x, k - s, k))
             THEN linear_search(c, x, k - s, k)
        ELSE JumpFrom(c, x, s, k + s)
    ELSE linear_search(c, x, k - s, Len(c))

find_jump(c, x) ==
    LET s == get_optimal_jump_size(c) IN JumpFrom(c, x, s, s)

----------------------------------------------------------------------------
(* Initial states: the arguments of one call *)

Fresh ==
    /\ pc = "start"
    /\ jump_size = 0
    /\ cache_line_size = None
    /\ pulled = 0
    /\ i = 0
    /\ left = 0
    /\ right = 0
    /\ scanned_block = FALSE
    /\ entered = {}
    /\ result = None

\* find or find_jump on a sorted collection (the callers' obligation)
Init ==
    /\ \/ collection \in SortedSeqs /\ item \in Values
       \/ collection = TestVec /\ item \in TestItems
    /\ entry \in {"find", "find_jump"}
    /\ Fresh

\* find_jump on any collection, sorted or not
JumpInit ==
    /\ collection \in AllSeqs
    /\ item \in Values
    /\ entry = "find_jump"
    /\ Fresh

\* find_jump_with_size on a sorted collection with any stride
EngineInit ==
    /\ collection \in SortedSeqs
    /\ item \in Values
    /\ entry = "find_jump_with_size"
    /\ pc = "jump"
    /\ jump_size \in 0..MaxStride
    /\ cache_line_size = None
    /\ pulled = 0
    /\ i = 0
    /\ left = 0
    /\ right = 0
    /\ scanned_block = FALSE
    /\ entered = {}
    /\ result = None

----------------------------------------------------------------------------
(* find, lines 4-21 *)

\* line 7
FindStart ==
    /\ pc = "start" /\ entry = "find"
    /\ jump_size' = get_optimal_jump_size(collection)
    /\ pc' = "query"
    /\ UNCHANGED <<collection, item, entry, cache_line_size, pulled, i, left,
                   right, scanned_block, entered, result>>

\* lines 8-9: get_cache_parameters() yields None and `?` returns None from find
QueryUnavailable ==
    /\ pc = "query"
    /\ result' = None
    /\ pc' = "done"
    /\ UNCHANGED <<collection, item, entry, jump_size, cache_line_size, pulled,
                   i, left, right, scanned_block, entered>>

\* lines 8-9: get_cache_parameters() yields an iterator over the descriptors
QueryAvailable ==
    /\ pc = "query"
    /\ cache_line_size' = None
    /\ pulled' = 0
    /\ pc' = "min"
    /\ UNCHANGED <<collection, item, entry, jump_size, i, left, right,
                   scanned_block, entered, result>>

\* lines 10-12: the iterator yields one more descriptor
CacheNext ==
    /\ pc = "min"
    /\ pulled < MaxCaches
    /\ \E e \in CacheEntries : cache_line_size' = MinStep(cache_line_size, e)
    /\ pulled' = pulled + 1
    /\ UNCHANGED <<collection, item, entry, pc, jump_size, i, left, right,
                   scanned_block, entered, result>>

\* lines 10-12: the iterator is exhausted and min() returns
CacheEnd ==
    /\ pc = "min"
    /\ pc' = "decide"
    /\ UNCHANGED <<collection, item, entry, jump_size, cache_line_size, pulled,
                   i, left, right, scanned_block, entered, result>>

\* lines 13-17: the binary search branch
FindBinary ==
    /\ pc = "decide"
    /\ UseBinary(cache_line_size, jump_size)
    /\ entered' = entered \cup {"binary"}
    /\ result' = binary_search(collection, item)
    /\ pc' = "done"
    /\ UNCHANGED <<collection, item, entry, jump_size, cache_line_size, pulled,
                   i, left, right, scanned_block>>

\* lines 18-19: the jump search branch
FindJump ==
    /\ pc = "decide"
    /\ ~UseBinary(cache_line_size, jump_size)
    /\ pc' = "jump"
    /\ UNCHANGED <<collection, item, entry, jump_size, cache_line_size, pulled,
                   i, left, right, scanned_block, entered, result>>

----------------------------------------------------------------------------
(* find_jump, lines 24-28 *)

FindJumpStart ==
    /\ pc = "start" /\ entry = "find_jump"
    /\ jump_size' = get_optimal_jump_size(collection)
    /\ pc' = "jump"
    /\ UNCHANGED <<collection, item, entry, cache_line_size, pulled, i, left,
                   right, scanned_block, entered, result>>

----------------------------------------------------------------------------
(* find_jump_with_size, lines 31-47 *)

\* line 34
JumpEnter ==
    /\ pc = "jump"
    /\ i' = jump_size
    /\ entered' = entered \cup {"jump"}
    /\ pc' = "while"
    /\ UNCHANGED <<collection, item, entry, jump_size, cache_line_size, pulled,
                   left, right, scanned_block, result>>

\* lines 35-37: the probe matches
ProbeEqual ==
    /\ pc = "while"
    /\ i < Len(collection)
    /\ At(collection, i) = item
    /\ result' = Some(i)
    /\ pc' = "done"
    /\ UNCHANGED <<collection, item, entry, jump_size, cache_line_size, pulled,
                   i, left, right, scanned_block, entered>>

\* lines 35-40: the probe is greater; linear_search is called on the block.
\* i - jump_size below zero panics (debug) or wraps to a start past the end
\* of the slice, which panics in linear_search (release).
ProbeGreater ==
    /\ pc = "while"
    /\ i < Len(collection)
    /\ At(collection, i) > item
    /\ left' = LoopRange(i, jump_size)[1]
    /\ right' = LoopRange(i, jump_size)[2]
    /\ pc' = IF LoopRange(i, jump_size)[1] < 0 THEN "panic" ELSE "loop_scan"
    /\ UNCHANGED <<collection, item, entry, jump_size, cache_line_size, pulled,
                   i, scanned_block, entered, result>>

\* lines 35-39: the probe is smaller
ProbeLess ==
    /\ pc = "while"
    /\ i < Len(collection)
    /\ At(collection, i) < item
    /\ pc' = "advance"
    /\ UNCHANGED <<collection, item, entry, jump_size, cache_line_size, pulled,
                   i, left, right, scanned_block, entered, result>>

\* lines 40-42 and 53-56: the in-loop scan returns; only Some(idx) returns
\* from find_jump_with_size
LoopScan ==
    /\ pc = "loop_scan"
    /\ IF ~ValidRange(collection, left, right)
       THEN /\ pc' = "panic"
            /\ UNCHANGED <<result, scanned_block>>
       ELSE IF is_some(linear_search(collection, item, left, right))
       THEN /\ result' = linear_search(collection, item, left, right)
            /\ pc' = "done"
            /\ scanned_block' = TRUE
       ELSE /\ pc' = "advance"
            /\ scanned_block' = TRUE
            /\ UNCHANGED result
    /\ UNCHANGED <<collection, item, entry, jump_size, cache_line_size, pulled,
                   i, left, right, entered>>

\* line 44
Advance ==
    /\ pc = "advance"
    /\ i' = NextProbe(i, jump_size)
    /\ pc' = "while"
    /\ UNCHANGED <<collection, item, entry, jump_size, cache_line_size, pulled,
                   left, right, scanned_block, entered, result>>

\* lines 35 and 46: the loop ends; linear_search is called on the last block
LoopExit ==
    /\ pc = "while"
    /\ i >= Len(collection)
    /\ left' = FinalRange(collection, i, jump_size)[1]
    /\ right' = FinalRange(collection, i, jump_size)[2]
    /\ pc' = IF FinalRange(collection, i, jump_size)[1] < 0
             THEN "panic" ELSE "final_scan"
    /\ UNCHANGED <<collection, item, entry, jump_size, cache_line_size, pulled,
                   i, scanned_block, entered, result>>

\* lines 46 and 53-56: the final scan returns its result
FinalScan ==
    /\ pc = "final_scan"
    /\ IF ~ValidRange(collection, left, right)
       THEN /\ pc' = "panic"
            /\ UNCHANGED result
       ELSE /\ result' = linear_search(collection, item, left, right)
            /\ pc' = "done"
    /\ UNCHANGED <<collection, item, entry, jump_size, cache_line_size, pulled,
                   i, left, right, scanned_block, entered>>

----------------------------------------------------------------------------
(* Specifications *)

EngineNext ==
    \/ JumpEnter
    \/ ProbeEqual
    \/ ProbeGreater
    \/ ProbeLess
    \/ LoopScan
    \/ Advance
    \/ LoopExit
    \/ FinalScan

JumpNext == FindJumpStart \/ EngineNext

Next ==
    \/ FindStart
    \/ QueryUnavailable
    \/ QueryAvailable
    \/ CacheNext
    \/ CacheEnd
    \/ FindBinary
    \/ FindJump
    \/ JumpNext

\* one call of find or find_jump on a sorted collection
Spec == Init /\ [][Next]_vars

\* the same; a running call always takes its next step
LiveSpec == Spec /\ WF_vars(Next)

\* one call of find_jump on any collection
JumpSpec == JumpInit /\ [][JumpNext]_vars

\* one call of find_jump_with_size with any stride; the call always takes
\* its next step
EngineSpec == EngineInit /\ [][EngineNext]_vars /\ WF_vars(EngineNext)

----------------------------------------------------------------------------
(* Properties *)

Returned == pc = "done"

\* the result is Some(k) with k a valid index of an element equal to item
FoundItem ==
    /\ is_some(result)
    /\ unwrap(result) \in 0..(Len(collection) - 1)
    /\ At(collection, unwrap(result)) = item

\* the step-wise find_jump_with_size returns what the function JumpFrom
\* computes
EngineMatchesFunction ==
    (entry = "find_jump" /\ Returned) => result = find_jump(collection, item)

\* C1: find_jump on a sorted collection that holds the target never panics
\* and returns Some(k) with 0 <= k < len and collection[k] == target.
C1_FindJumpFindsPresent ==
    (entry = "find_jump" /\ Occurs(collection, item)) =>
        /\ pc # "panic"
        /\ Returned => FoundItem

\* the target is found by the scan of the last block, which is shorter than
\* the stride
C1_Witness ==
    /\ entry = "find_jump" /\ Returned /\ FoundItem
    /\ left > 0 /\ right = Len(collection) /\ right - left < jump_size
    /\ unwrap(result) > left

\* C2: find_jump on a sorted collection (the empty one included) that does
\* not hold the target never panics and returns None.
C2_FindJumpAbsentIsNone ==
    (entry = "find_jump" /\ ~Occurs(collection, item)) =>
        /\ pc # "panic"
        /\ Returned => result = None

\* the absent target lies between two elements of the collection
C2_Witness ==
    /\ entry = "find_jump" /\ Returned /\ result = None
    /\ ~Occurs(collection, item)
    /\ \E k \in 1..Len(collection) : collection[k] < item
    /\ \E k \in 1..Len(collection) : collection[k] > item

\* C3: whatever the cache-geometry query yields, find returns Some exactly
\* when find_jump returns Some on the same sorted collection and target.
C3_FindAgreesWithFindJump ==
    (entry = "find" /\ Returned) =>
        (is_some(result) <=> is_some(find_jump(collection, item)))

\* find and find_jump agree whenever the query yields its iterator
FindAgreesWhenQueryAnswers ==
    (entry = "find" /\ Returned /\ entered # {}) =>
        (is_some(result) <=> is_some(find_jump(collection, item)))

\* C4: when the query yields no hint (nothing at all, or no level-2 data
\* cache), find runs jump search with the computed stride and returns its
\* result.
C4_NoHintFallsBackToJump ==
    (entry = "find" /\ Returned /\ ~is_some(cache_line_size)) =>
        result = find_jump(collection, item)

\* the fallback holds when the iterator is yielded without a level-2 data
\* cache in it
NoL2DataFallsBackToJump ==
    (entry = "find" /\ Returned /\ ~is_some(cache_line_size) /\ pulled > 0) =>
        /\ entered = {"jump"}
        /\ result = find_jump(collection, item)

\* find has passed the test of line 13
Decided == entry = "find" /\ pc \notin {"start", "query", "min", "decide"}

\* C5: with a hint, find runs binary search and never jump search when
\* hint <= stride (hint == stride included), and jump search with stride
\* floor(sqrt(len)) and never binary search when hint > stride.
C5_StrategyFromHintAndStride ==
    (Decided /\ is_some(cache_line_size)) =>
        IF unwrap(cache_line_size) <= jump_size
        THEN /\ entered = {"binary"}
             /\ Returned
        ELSE /\ "binary" \notin entered
             /\ Returned => entered = {"jump"}
             /\ jump_size * jump_size <= Len(collection)
             /\ Len(collection) < (jump_size + 1) * (jump_size + 1)

\* the boundary hint == stride ran binary search
C5_Witness ==
    /\ Decided /\ Returned
    /\ is_some(cache_line_size) /\ unwrap(cache_line_size) = jump_size
    /\ entered = {"binary"}
    /\ FoundItem

\* C6: every call of find_jump returns, for every length from 0 up, and each
\* loop iteration moves the probe index strictly up.
C6_FindJumpTerminates ==
    /\ (entry = "find_jump") => <>Returned
    /\ [][(entry = "find_jump" /\ pc = "advance") => i' > i]_vars

\* find_jump has returned on a collection of length 1
C6_Witness ==
    entry = "find_jump" /\ Returned /\ Len(collection) = 1 /\ i = 1

\* C7 as stated: the stride is 0 for length 0 and for length 1, 2 for
\* length 4 and 5 for length 29.
C7_StrideAsStated ==
    (pc # "start") =>
        /\ Len(collection) = 0 => jump_size = 0
        /\ Len(collection) = 1 => jump_size = 0
        /\ Len(collection) = 4 => jump_size = 2
        /\ Len(collection) = 29 => jump_size = 5

\* C7 amended: the stride is 0 for length 0, 1 for length 1, 2 for length 4
\* and 5 for length 29.
C7_StrideValues ==
    (pc # "start") =>
        /\ Len(collection) = 0 => jump_size = 0
        /\ Len(collection) = 1 => jump_size = 1
        /\ Len(collection) = 4 => jump_size = 2
        /\ Len(collection) = 29 => jump_size = 5

\* the stride of a collection of length 1 has been computed
C7_Witness == pc # "start" /\ Len(collection) = 1 /\ jump_size = 1

\* C8: with stride >= 1, once the linear scan of the block before a probe
\* greater than the target has returned, Some or None, the search has
\* returned: no further probe and no further scan follows.
C8_BlockScanReturnsImmediately ==
    (jump_size >= 1 /\ scanned_block) => Returned

StrideZeroEmptyTerminates ==
    (jump_size = 0 /\ collection = <<>>) => <>(Returned /\ result = None)

\* C10: find_jump on any collection, sorted or not, never panics: i -
\* jump_size never goes below 0 and every linear_search call has
\* 0 <= left <= right <= len.
C10_ScanRangesValid ==
    /\ pc # "panic"
    /\ pc \in {"loop_scan", "final_scan"} =>
           ValidRange(collection, left, right)

\* the final scan of an unsorted collection starts past index 0 and ends at
\* the length, below the next probe index
C10_Witness ==
    /\ pc = "final_scan"
    /\ ~IsSorted(collection)
    /\ scanned_block
    /\ left > 0 /\ i > Len(collection)
    /\ ValidRange(collection, left, right)

====
